---- MODULE Spec2Model ----
(***************************************************************************)
(* UserService of src/user.py: six FastAPI handlers over the tables users  *)
(* and tasks, each handler a pre-check SELECT followed by one INSERT,      *)
(* UPDATE or DELETE and a commit.                                          *)
(*                                                                         *)
(* Strings are sequences of one-character strings, so that slugify and     *)
(* Python's truthiness of a string can be computed.  The result of         *)
(* Session.scalar is a set: {} is None, {v} is the value v.                *)
(*                                                                         *)
(* Two specifications share the statement-level operators:                 *)
(*   Spec      every request runs its handler to completion (one action    *)
(*             per handler);                                               *)
(*   SpecConc  requests on separate sessions interleave at the granularity *)
(*             of the SQL statements of the handlers.                      *)
(***************************************************************************)
EXTENDS Integers, Sequences, FiniteSets, TLC

VARIABLES users, tasks, resp, req

vars == <<users, tasks, resp, req>>

(***************************************************************************)
(* Bounds and input sets.                                                  *)
(***************************************************************************)
\* largest primary key the store hands out before CreateUser is cut off
MaxId == 2

\* ids a request may carry; 0 is a legal INTEGER PRIMARY KEY of SQLite
Ids == 0..MaxId

\* usernames: the empty string, mixed case around a blank, a leading blank
Usernames == { <<>>, <<"J", " ", "D">>, <<" ", "A">> }

Firstnames == { "x", "y" }

\* payload of CreateUser and of UpdateUser (app.schemas is not in src/)
Inputs == [username : Usernames, firstname : Firstnames]

Sessions == { "s1", "s2" }

\* payloads of the interleaved requests: a falsy and a truthy username
ConcInputs == { i \in Inputs : i.firstname = "x" /\ i.username \in { <<>>, <<"J", " ", "D">> } }

(***************************************************************************)
(* slugify (python-slugify): lowercase, every run of non-alphanumerics     *)
(* becomes one "-", no "-" at either end.                                  *)
(***************************************************************************)
Lower(c) ==
    CASE c = "J" -> "j"
      [] c = "D" -> "d"
      [] c = "A" -> "a"
      [] OTHER   -> c

IsAlnum(c) == c \in { "j", "d", "a", "J", "D", "A" }

\* each character lowercased, or "-" when it is not alphanumeric
RECURSIVE Normalise(_)
Normalise(s) ==
    IF s = <<>> THEN <<>>
    ELSE <<IF IsAlnum(Head(s)) THEN Lower(Head(s)) ELSE "-">> \o Normalise(Tail(s))

\* runs of "-" collapsed to one
RECURSIVE Collapse(_)
Collapse(s) ==
    IF Len(s) < 2 THEN s
    ELSE IF Head(s) = "-" /\ Head(Tail(s)) = "-" THEN Collapse(Tail(s))
    ELSE <<Head(s)>> \o Collapse(Tail(s))

RECURSIVE StripLeft(_)
StripLeft(s) ==
    IF s # <<>> /\ Head(s) = "-" THEN StripLeft(Tail(s)) ELSE s

RECURSIVE StripRight(_)
StripRight(s) ==
    IF s # <<>> /\ s[Len(s)] = "-" THEN StripRight(SubSeq(s, 1, Len(s) - 1)) ELSE s

slugify(s) == StripRight(StripLeft(Collapse(Normalise(s))))

(***************************************************************************)
(* Python truthiness of what Session.scalar returns.                       *)
(***************************************************************************)
\* `if x` / `if not x` for an int-or-None: None and 0 are falsy
TruthyInt(r) == r # {} /\ 0 \notin r

\* `if x` for a str-or-None: None and "" are falsy
TruthyStr(r) == r # {} /\ <<>> \notin r

\* `if not user` for a mapped User object or None: every object is truthy
TruthyObj(r) == r # {}

(***************************************************************************)
(* The store.                                                              *)
(***************************************************************************)
UserIds(us) == { u.id : u \in us }

Max(S) == CHOOSE m \in S : \A x \in S : x <= m

\* INTEGER PRIMARY KEY without AUTOINCREMENT: one more than the largest rowid
NewId(us) == IF us = {} THEN 1 ELSE Max(UserIds(us)) + 1

\* sess.scalar(select(User.id).where(User.id == user_id))
ScalarUserId(us, id) == { u.id : u \in { v \in us : v.id = id } }

\* sess.scalar(select(User).where(User.id == user_id))
ScalarUser(us, id) == { u \in us : u.id = id }

\* sess.scalar(select(User.username).where(User.username == user.username))
ScalarUsername(us, name) == { u.username : u \in { v \in us : v.username = name } }

\* sess.scalars(select(Task).where(Task.user_id == user_id)).all()
SelectTasks(ts, id) == { t \in ts : t.user_id = id }

\* variant: a users table whose username column carries no UNIQUE constraint
NoUniqueConstraint(us, row) == FALSE

\* UNIQUE (username): the row `row` would repeat another row's username
UniqueViolation(us, row) ==
    \E u \in us : u.id # row.id /\ u.username = row.username

\* variant: the username stored as the slug, slugify forgotten
NewUserRowRawSlug(id, input) ==
    [id |-> id, username |-> input.username, firstname |-> input.firstname,
     slug |-> input.username]

\* user_dict = dict(user); user_dict['slug'] = slugify(user.username)
NewUserRow(id, input) ==
    [id |-> id, username |-> input.username, firstname |-> input.firstname,
     slug |-> slugify(input.username)]

\* the pre-check of create_user: a truthy scalar raises 409
UsernameTaken(us, input) == TruthyStr(ScalarUsername(us, input.username))

\* variant: the handlers without their existence check
UserIdFoundUnchecked(us, id) == TRUE

\* the pre-check of update_user, delete_user and tasks_by_user_id: 404 unless truthy
UserIdFound(us, id) == TruthyInt(ScalarUserId(us, id))

\* the pre-check of user_by_id
UserFound(us, id) == TruthyObj(ScalarUser(us, id))

\* sess.execute(insert(User), user_dict); sess.commit()
InsertFails(us, input) == UniqueViolation(us, NewUserRow(NewId(us), input))

InsertUser(us, input) == us \cup { NewUserRow(NewId(us), input) }

\* variant: an update that derives the slug again from the new username
UpdatedRowReslug(u, input) ==
    [u EXCEPT !.username = input.username, !.firstname = input.firstname,
              !.slug = slugify(input.username)]

\* update(User).where(User.id == user_id) with the values dict(user)
UpdatedRow(u, input) ==
    [u EXCEPT !.username = input.username, !.firstname = input.firstname]

UpdateFails(us, id, input) ==
    \E u \in us : u.id = id /\ UniqueViolation(us, UpdatedRow(u, input))

UpdateUsers(us, id, input) ==
    { IF u.id = id THEN UpdatedRow(u, input) ELSE u : u \in us }

\* variant: the DELETE without its WHERE clause
DeleteAllUsers(us, id) == {}

\* delete(User).where(User.id == user_id)
DeleteUsers(us, id) == { u \in us : u.id # id }

\* variant: delete_user without PRAGMA foreign_keys=ON, tasks left behind
NoCascade(ts, us, id) == ts

\* PRAGMA foreign_keys=ON with ON DELETE CASCADE on tasks.user_id: the tasks
\* of the rows the DELETE removed go with them
CascadeTasks(ts, us, id) ==
    { t \in ts : t.user_id \notin (UserIds(us) \ UserIds(DeleteUsers(us, id))) }

(***************************************************************************)
(* Responses.  status is the status code of the HTTPException raised or    *)
(* of the acknowledgment returned; body is the set of rows returned.       *)
(***************************************************************************)
HTTP_200_OK == 200
HTTP_201_CREATED == 201
HTTP_404_NOT_FOUND == 404
HTTP_409_CONFLICT == 409
\* variant: the IntegrityError caught and raised again as 409
CaughtAsConflict == HTTP_409_CONFLICT

\* an uncaught sqlalchemy IntegrityError: a generic server failure
StoreError == 500

NoInput == [username |-> <<>>, firstname |-> "-"]

NoResp == [op |-> "none", status |-> 0, id |-> -1, input |-> NoInput, body |-> {}]

Response(op, status, id, input, body) ==
    [op |-> op, status |-> status, id |-> id, input |-> input, body |-> body]

IdleReq == [pc |-> "idle", op |-> "none", status |-> 0, id |-> -1,
            input |-> NoInput, body |-> {}]

(***************************************************************************)
(* Initial store: the tables as the service finds them.  Tasks are written *)
(* by another router; every seed satisfies the schema (unique ids, unique  *)
(* usernames, every task owned by a user).  One seed holds a row with the  *)
(* id 0, which the store never assigns itself but accepts when a row is    *)
(* loaded with an explicit id.                                             *)
(***************************************************************************)
SeedStores ==
    { [users |-> {}, tasks |-> {}],
      [users |-> { [id |-> 0, username |-> <<"J", " ", "D">>, firstname |-> "x",
                    slug |-> <<"j", "-", "d">>] },
       tasks |-> { [id |-> 1, user_id |-> 0] }],
      [users |-> { [id |-> 1, username |-> <<" ", "A">>, firstname |-> "x",
                    slug |-> <<"a">>],
                   [id |-> 2, username |-> <<"J", " ", "D">>, firstname |-> "y",
                    slug |-> <<"j", "-", "d">>] },
       tasks |-> { [id |-> 1, user_id |-> 1], [id |-> 2, user_id |-> 1],
                   [id |-> 3, user_id |-> 2] }] }

Init ==
    /\ \E s \in SeedStores : users = s.users /\ tasks = s.tasks
    /\ resp = NoResp
    /\ req = [s \in Sessions |-> IdleReq]

(***************************************************************************)
(* Spec: one action per handler.                                           *)
(***************************************************************************)
all_users ==
    /\ resp' = Response("all_users", HTTP_200_OK, -1, NoInput, users)
    /\ UNCHANGED <<users, tasks, req>>

user_by_id(id) ==
    /\ resp' = IF UserFound(users, id)
               THEN Response("user_by_id", HTTP_200_OK, id, NoInput, ScalarUser(users, id))
               ELSE Response("user_by_id", HTTP_404_NOT_FOUND, id, NoInput, {})
    /\ UNCHANGED <<users, tasks, req>>

tasks_by_user_id(id) ==
    /\ resp' = IF UserIdFound(users, id)
               THEN Response("tasks_by_user_id", HTTP_200_OK, id, NoInput,
                             SelectTasks(tasks, id))
               ELSE Response("tasks_by_user_id", HTTP_404_NOT_FOUND, id, NoInput, {})
    /\ UNCHANGED <<users, tasks, req>>

create_user(input) ==
    /\ UsernameTaken(users, input) \/ NewId(users) <= MaxId
    /\ IF UsernameTaken(users, input)
       THEN /\ resp' = Response("create_user", HTTP_409_CONFLICT, -1, input, {})
            /\ users' = users
       ELSE IF InsertFails(users, input)
       THEN /\ resp' = Response("create_user", StoreError, -1, input, {})
            /\ users' = users
       ELSE /\ resp' = Response("create_user", HTTP_201_CREATED, -1, input, {})
            /\ users' = InsertUser(users, input)
    /\ UNCHANGED <<tasks, req>>

update_user(id, input) ==
    /\ IF ~UserIdFound(users, id)
       THEN /\ resp' = Response("update_user", HTTP_404_NOT_FOUND, id, input, {})
            /\ users' = users
       ELSE IF UpdateFails(users, id, input)
       THEN /\ resp' = Response("update_user", StoreError, id, input, {})
            /\ users' = users
       ELSE /\ resp' = Response("update_user", HTTP_200_OK, id, input, {})
            /\ users' = UpdateUsers(users, id, input)
    /\ UNCHANGED <<tasks, req>>

delete_user(id) ==
    IF ~UserIdFound(users, id)
    THEN /\ resp' = Response("delete_user", HTTP_404_NOT_FOUND, id, NoInput, {})
         /\ UNCHANGED <<users, tasks, req>>
    ELSE /\ resp' = Response("delete_user", HTTP_200_OK, id, NoInput, {})
         /\ users' = DeleteUsers(users, id)
         /\ tasks' = CascadeTasks(tasks, users, id)
         /\ UNCHANGED req

Next ==
    \/ all_users
    \/ \E id \in Ids : user_by_id(id)
    \/ \E id \in Ids : tasks_by_user_id(id)
    \/ \E input \in Inputs : create_user(input)
    \/ \E id \in Ids, input \in Inputs : update_user(id, input)
    \/ \E id \in Ids : delete_user(id)

Spec == Init /\ [][Next]_vars

(***************************************************************************)
(* SpecConc: one session per request, the sessions of concurrent requests  *)
(* interleave between the statements of a handler.  The pre-check SELECT   *)
(* is one step; the INSERT, UPDATE or DELETE with its commit is the next   *)
(* (SQLite serialises writers, so the constraint check and the commit of   *)
(* one writer are not interleaved with another writer).                    *)
(***************************************************************************)
Pending(s, op) == req[s].pc = "act" /\ req[s].op = op

Start(s, op, id, input) ==
    [pc |-> "act", op |-> op, status |-> 0, id |-> id, input |-> input, body |-> {}]

Finish(s, status, body) ==
    [req[s] EXCEPT !.pc = "idle", !.status = status, !.body = body]

Reject(s, op, status, id, input) ==
    [pc |-> "idle", op |-> op, status |-> status, id |-> id, input |-> input,
     body |-> {}]

all_users_select(s) ==
    /\ req[s].pc = "idle"
    /\ req' = [req EXCEPT ![s] = [Start(s, "all_users", -1, NoInput) EXCEPT
                                     !.pc = "idle", !.status = HTTP_200_OK,
                                     !.body = users]]
    /\ UNCHANGED <<users, tasks, resp>>

user_by_id_select(s, id) ==
    /\ req[s].pc = "idle"
    /\ req' = [req EXCEPT ![s] =
                 IF UserFound(users, id)
                 THEN [Start(s, "user_by_id", id, NoInput) EXCEPT
                         !.pc = "idle", !.status = HTTP_200_OK,
                         !.body = ScalarUser(users, id)]
                 ELSE Reject(s, "user_by_id", HTTP_404_NOT_FOUND, id, NoInput)]
    /\ UNCHANGED <<users, tasks, resp>>

tasks_by_user_id_check(s, id) ==
    /\ req[s].pc = "idle"
    /\ req' = [req EXCEPT ![s] =
                 IF UserIdFound(users, id)
                 THEN Start(s, "tasks_by_user_id", id, NoInput)
                 ELSE Reject(s, "tasks_by_user_id", HTTP_404_NOT_FOUND, id, NoInput)]
    /\ UNCHANGED <<users, tasks, resp>>

tasks_by_user_id_select(s) ==
    /\ Pending(s, "tasks_by_user_id")
    /\ req' = [req EXCEPT ![s] = Finish(s, HTTP_200_OK, SelectTasks(tasks, req[s].id))]
    /\ UNCHANGED <<users, tasks, resp>>

\* inserts that passed their pre-check and have not run yet
PendingInserts == { t \in Sessions : Pending(t, "create_user") }

create_user_check(s, input) ==
    /\ req[s].pc = "idle"
    /\ \/ UsernameTaken(users, input)
       \/ NewId(users) + Cardinality(PendingInserts) <= MaxId
    /\ req' = [req EXCEPT ![s] =
                 IF UsernameTaken(users, input)
                 THEN Reject(s, "create_user", HTTP_409_CONFLICT, -1, input)
                 ELSE Start(s, "create_user", -1, input)]
    /\ UNCHANGED <<users, tasks, resp>>

create_user_insert(s) ==
    /\ Pending(s, "create_user")
    /\ IF InsertFails(users, req[s].input)
       THEN /\ req' = [req EXCEPT ![s] = Finish(s, StoreError, {})]
            /\ users' = users
       ELSE /\ req' = [req EXCEPT ![s] = Finish(s, HTTP_201_CREATED, {})]
            /\ users' = InsertUser(users, req[s].input)
    /\ UNCHANGED <<tasks, resp>>

update_user_check(s, id, input) ==
    /\ req[s].pc = "idle"
    /\ req' = [req EXCEPT ![s] =
                 IF UserIdFound(users, id)
                 THEN Start(s, "update_user", id, input)
                 ELSE Reject(s, "update_user", HTTP_404_NOT_FOUND, id, input)]
    /\ UNCHANGED <<users, tasks, resp>>

update_user_exec(s) ==
    /\ Pending(s, "update_user")
    /\ IF UpdateFails(users, req[s].id, req[s].input)
       THEN /\ req' = [req EXCEPT ![s] = Finish(s, StoreError, {})]
            /\ users' = users
       ELSE /\ req' = [req EXCEPT ![s] = Finish(s, HTTP_200_OK, {})]
            /\ users' = UpdateUsers(users, req[s].id, req[s].input)
    /\ UNCHANGED <<tasks, resp>>

delete_user_check(s, id) ==
    /\ req[s].pc = "idle"
    /\ req' = [req EXCEPT ![s] =
                 IF UserIdFound(users, id)
                 THEN Start(s, "delete_user", id, NoInput)
                 ELSE Reject(s, "delete_user", HTTP_404_NOT_FOUND, id, NoInput)]
    /\ UNCHANGED <<users, tasks, resp>>

delete_user_exec(s) ==
    /\ Pending(s, "delete_user")
    /\ req' = [req EXCEPT ![s] = Finish(s, HTTP_200_OK, {})]
    /\ users' = DeleteUsers(users, req[s].id)
    /\ tasks' = CascadeTasks(tasks, users, req[s].id)
    /\ UNCHANGED resp

NextConc ==
    \/ \E s \in Sessions : all_users_select(s)
    \/ \E s \in Sessions, id \in Ids : user_by_id_select(s, id)
    \/ \E s \in Sessions, id \in Ids : tasks_by_user_id_check(s, id)
    \/ \E s \in Sessions : tasks_by_user_id_select(s)
    \/ \E s \in Sessions, input \in ConcInputs : create_user_check(s, input)
    \/ \E s \in Sessions : create_user_insert(s)
    \/ \E s \in Sessions, id \in Ids, input \in ConcInputs : update_user_check(s, id, input)
    \/ \E s \in Sessions : update_user_exec(s)
    \/ \E s \in Sessions, id \in Ids : delete_user_check(s, id)
    \/ \E s \in Sessions : delete_user_exec(s)

SpecConc == Init /\ [][NextConc]_vars

(***************************************************************************)
(* Properties of Spec.  Every handler records its parameters in its        *)
(* response, so the step of handler h with parameters id and input is the  *)
(* step that satisfies h(resp'.id, resp'.input).                           *)
(***************************************************************************)
Exists(us, id) == id \in UserIds(us)

\* C1: in every reachable state no two existing Users have the same
\* username, also after UpdateUser calls whose input carries a username held
\* by a different User.
UsernameUnique ==
    \A u \in users : \A v \in users : u.username = v.username => u = v

\* an UpdateUser that carried another User's username has been turned down
UsernameUniqueWitness ==
    /\ resp.op = "update_user"
    /\ resp.status = StoreError
    /\ \E u \in users : u.id # resp.id /\ u.username = resp.input.username
    /\ Exists(users, resp.id)

\* C2: CreateUser with the username of an existing User (any username, the
\* empty string too) fails with 409 Conflict and leaves users and tasks as
\* they were.
DuplicateCreateIsConflict ==
    [][( /\ create_user(resp'.input)
         /\ \E u \in users : u.username = resp'.input.username )
       => /\ resp'.status = HTTP_409_CONFLICT
          /\ users' = users
          /\ tasks' = tasks]_vars

\* C3: on an id that belongs to no User, GetUser, UpdateUser, DeleteUser and
\* ListTasksForUser each fail with 404 NotFound and leave users and tasks
\* unchanged.
NotFoundOnMissingId ==
    [][( /\ ~Exists(users, resp'.id)
         /\ \/ user_by_id(resp'.id)
            \/ tasks_by_user_id(resp'.id)
            \/ delete_user(resp'.id)
            \/ update_user(resp'.id, resp'.input) )
       => /\ resp'.status = HTTP_404_NOT_FOUND
          /\ resp'.body = {}
          /\ users' = users
          /\ tasks' = tasks]_vars

\* an UpdateUser on a missing id was answered 404 while other Users exist
NotFoundOnMissingIdWitness ==
    /\ resp.op = "update_user"
    /\ resp.status = HTTP_404_NOT_FOUND
    /\ ~Exists(users, resp.id)
    /\ users # {}

\* C4: in every reachable state every Task's user_id is the id of an
\* existing User; a successful DeleteUser(id) leaves no Task of id behind.
NoDanglingTask ==
    \A t \in tasks : Exists(users, t.user_id)

\* User 1, who owned tasks 1 and 2, was deleted; the task of User 2 remains
NoDanglingTaskWitness ==
    /\ resp.op = "delete_user"
    /\ resp.status = HTTP_200_OK
    /\ resp.id = 1
    /\ ~Exists(users, 1)
    /\ tasks = { [id |-> 3, user_id |-> 2] }

CreateStoresSlug ==
    [][/\ ( /\ create_user(resp'.input)
            /\ resp'.status = HTTP_201_CREATED )
          => \E u \in users' \ users :
                /\ ~Exists(users, u.id)
                /\ u.username = resp'.input.username
                /\ u.firstname = resp'.input.firstname
                /\ u.slug = slugify(resp'.input.username)
                /\ u.username = <<"J", " ", "D">> => u.slug = <<"j", "-", "d">>
                /\ u.username = <<" ", "A">> => u.slug = <<"a">>
                /\ users' = users \cup {u}
       /\ ( /\ resp.op = "create_user"
            /\ resp.status = HTTP_201_CREATED
            /\ user_by_id(resp'.id)
            /\ \E u \in users : u.id = resp'.id /\ u.username = resp.input.username )
          => /\ resp'.status = HTTP_200_OK
             /\ \A u \in resp'.body : u.slug = slugify(resp.input.username)
             /\ resp'.body # {}]_vars

\* "J D" was created as User 1 and its row carries the slug "j-d"
CreateStoresSlugWitness ==
    /\ resp.op = "create_user"
    /\ resp.status = HTTP_201_CREATED
    /\ resp.input.username = <<"J", " ", "D">>
    /\ \E u \in users :
          /\ u.id = 1
          /\ u.username = <<"J", " ", "D">>
          /\ u.slug = <<"j", "-", "d">>

FrameEffects ==
    [][/\ ( \/ all_users
            \/ user_by_id(resp'.id)
            \/ tasks_by_user_id(resp'.id)
            \/ create_user(resp'.input)
            \/ update_user(resp'.id, resp'.input) )
          => tasks' = tasks
       /\ ( \/ all_users
            \/ user_by_id(resp'.id)
            \/ tasks_by_user_id(resp'.id) )
          => users' = users
       /\ ( /\ delete_user(resp'.id)
            /\ resp'.status = HTTP_200_OK )
          => /\ users' = { u \in users : u.id # resp'.id }
             /\ tasks' = { t \in tasks : t.user_id # resp'.id }
       /\ ( /\ update_user(resp'.id, resp'.input)
            /\ resp'.status = HTTP_200_OK )
          => /\ { u \in users' : u.id # resp'.id } = { u \in users : u.id # resp'.id }
             /\ UserIds(users') = UserIds(users)
             /\ Cardinality(users') = Cardinality(users)]_vars

\* User 1 was updated next to User 2, whose row and task are as seeded
FrameEffectsWitness ==
    /\ resp.op = "update_user"
    /\ resp.status = HTTP_200_OK
    /\ resp.id = 1
    /\ [id |-> 2, username |-> <<"J", " ", "D">>, firstname |-> "y",
        slug |-> <<"j", "-", "d">>] \in users
    /\ [id |-> 3, user_id |-> 2] \in tasks
    /\ \E u \in users : u.id = 1 /\ u.username = <<>> /\ u.firstname = "y"

(***************************************************************************)
(* Properties of SpecConc.  Only a pre-check moves a session from "idle"   *)
(* to "act", and only the statement of the handler moves it back.          *)
(***************************************************************************)
\* C7: two CreateUser requests with one username on separate sessions can
\* both pass the username check before either commits; the insert that runs
\* second then ends in the store's uniqueness failure, not in 409 Conflict,
\* and at most one User with that username is committed.
RacingCreateFailsInStore ==
    [][/\ \A s \in Sessions :
            ( /\ create_user_insert(s)
              /\ \E u \in users : u.username = req[s].input.username )
            => /\ req'[s].status = StoreError
               /\ req'[s].status # HTTP_409_CONFLICT
               /\ users' = users
       /\ \A u \in users' : \A v \in users' : u.username = v.username => u = v]_vars

\* both sessions passed the check for "J D"; one insert committed, the other
\* was turned down by the store
RacingCreateWitness ==
    \E s \in Sessions : \E t \in Sessions \ {s} :
       /\ req[s].op = "create_user" /\ req[t].op = "create_user"
       /\ req[s].input.username = <<"J", " ", "D">>
       /\ req[t].input.username = <<"J", " ", "D">>
       /\ req[s].pc = "idle" /\ req[s].status = HTTP_201_CREATED
       /\ req[t].pc = "idle" /\ req[t].status = StoreError
       /\ Cardinality({ u \in users : u.username = <<"J", " ", "D">> }) = 1

\* C9 as stated: the existence check and the mutation of a request are one
\* atomic step, so an UpdateUser(id) or DeleteUser(id) that returns its
\* success acknowledgment modified or removed a User that existed when the
\* mutation was applied.
CheckThenActAtomic ==
    [][\A s \in Sessions :
          ( /\ update_user_exec(s) \/ delete_user_exec(s)
            /\ req'[s].status = HTTP_200_OK )
          => Exists(users, req[s].id)]_vars

\* C9 amended: the existence check and the mutation are two steps, between
\* which the commits of other requests take effect.  An UpdateUser(id) or
\* DeleteUser(id) reaches its mutation only if a User id existed when its
\* check ran; the mutation then changes or removes the User id if it is
\* still there and no row otherwise, and is acknowledged as a success in
\* both cases.
CheckThenActSeparate ==
    [][\A s \in Sessions :
          /\ ( /\ \/ delete_user_check(s, req'[s].id)
                  \/ update_user_check(s, req'[s].id, req'[s].input)
               /\ req'[s].pc = "act" )
             => Exists(users, req'[s].id)
          /\ ( /\ update_user_exec(s) \/ delete_user_exec(s)
               /\ req'[s].status = HTTP_200_OK
               /\ ~Exists(users, req[s].id) )
             => users' = users /\ tasks' = tasks
          /\ ( /\ update_user_exec(s) \/ delete_user_exec(s)
               /\ req'[s].status = HTTP_200_OK )
             => /\ { u \in users' : u.id # req[s].id } = { u \in users : u.id # req[s].id }
                /\ req[s].pc = "act"]_vars

\* an UpdateUser passed its check on User 1 and has not run its UPDATE yet;
\* meanwhile the other session deleted User 1
CheckThenActSeparateWitness ==
    \E s \in Sessions : \E t \in Sessions \ {s} :
       /\ Pending(s, "update_user")
       /\ req[s].id = 1
       /\ ~Exists(users, 1)
       /\ req[t].op = "delete_user"
       /\ req[t].id = 1
       /\ req[t].pc = "idle"
       /\ req[t].status = HTTP_200_OK

====
